---- MODULE Spec2Model ----
(***************************************************************************)
(* A model of the SQuAD RAG chat application: the ingestion script         *)
(* (src/ingest.py, src/utils.py), the retrieval / prompt / generation      *)
(* pipeline (src/app/llm_assistant.py), the logging functions              *)
(* (src/app/database.py) and the chat handler (src/app/app.py).            *)
(*                                                                         *)
(* Text is modelled by TLA+ strings, handled character by character with   *)
(* Len, SubSeq and \o.  The vector store, the LLM service and the          *)
(* relational store are external: each call either raises or returns one   *)
(* of the answers its interface allows.                                    *)
(***************************************************************************)
EXTENDS Integers, Sequences, FiniteSets, TLC

VARIABLES
    now,            \* the wall clock read by time.time(), in ticks
    pc,             \* position of the chat handler / rag pipeline
    nq,             \* number of queries submitted so far
    query,          \* app.py `prompt`: the submitted chat input
    messages,       \* st.session_state.messages
    questions,      \* rows of table questions
    answers,        \* rows of table answers
    nextId,         \* source of fresh uuid4 values
    question_id,    \* app.py question_id
    rag_start,      \* rag: start_time
    rrf_start,      \* rrf_search: start_time
    results,        \* rrf_search: results (answer of query_points)
    search_results, \* rag: search_results
    prompt,         \* rag: prompt
    llm_start,      \* llm_response: start_time
    response,       \* llm_response: response
    llm_result,     \* rag: llm_result
    result,         \* app.py result (what rag returned)
    exc,            \* the exception caught at app.py:177
    calls,          \* the calls made so far in handling the current query
    sent,           \* the messages passed to the completion call
    collections,    \* the vector store: collection name -> set of points
    ipc,            \* position of the ingestion script ingest.main
    data,           \* ingest.main: data (raw dataset records)
    prepared_data,  \* ingest.main: prepared_data
    points,         \* ingest.main: points
    found,          \* answer of rrf_search for the round-trip query
    dense,          \* fusion: the dense candidate list
    sparse,         \* fusion: the sparse candidate list
    fused           \* fusion: the fused order

chatVars == <<now, pc, nq, query, messages, questions, answers, nextId,
              question_id, rag_start, rrf_start, results, search_results,
              prompt, llm_start, response, llm_result, result, exc, calls,
              sent>>
ingestVars == <<ipc, data, prepared_data, points, found>>
fusionVars == <<dense, sparse, fused>>
vars == <<chatVars, collections, ingestVars, fusionVars>>

----------------------------------------------------------------------------
(* Bounds of the model                                                     *)

MaxQueries == 2
MaxClock == 4
TicksPerMs == 2
MaxAnswerLen == 3
MaxLimit == 3
MaxListLen == 3

----------------------------------------------------------------------------
(* Values                                                                  *)

\* Python None, and a local not yet assigned
None == [none |-> TRUE]

Max(a, b) == IF a >= b THEN a ELSE b
Min(a, b) == IF a <= b THEN a ELSE b

\* the sequences without repetition over S, of length at most n
RECURSIVE InjSeqs(_, _)
InjSeqs(S, n) ==
    IF n = 0 THEN {<<>>}
    ELSE {<<>>} \cup
         UNION {{<<x>> \o s : s \in InjSeqs(S \ {x}, n - 1)} : x \in S}

----------------------------------------------------------------------------
(* Text                                                                    *)

Char(s, i) == SubSeq(s, i, i)

\* s occurs in t, character for character
Contains(t, s) ==
    \E i \in 1..(Len(t) - Len(s) + 1) : SubSeq(t, i, i + Len(s) - 1) = s

\* str.replace(old, new) for a one-character old
RECURSIVE Replace(_, _, _)
Replace(s, old, new) ==
    IF Len(s) = 0 THEN s
    ELSE (IF Char(s, 1) = old THEN new ELSE Char(s, 1))
         \o Replace(SubSeq(s, 2, Len(s)), old, new)

\* str.ljust(width)
RECURSIVE Ljust(_, _)
Ljust(s, width) == IF Len(s) >= width THEN s ELSE Ljust(s \o " ", width)

Whitespace == {" ", "\n", "\t", "\r", "\f"}

RECURSIVE LStrip(_)
LStrip(s) ==
    IF Len(s) > 0 /\ Char(s, 1) \in Whitespace
    THEN LStrip(SubSeq(s, 2, Len(s))) ELSE s

RECURSIVE RStrip(_)
RStrip(s) ==
    IF Len(s) > 0 /\ Char(s, Len(s)) \in Whitespace
    THEN RStrip(SubSeq(s, 1, Len(s) - 1)) ELSE s

\* str.strip()
Strip(s) == RStrip(LStrip(s))

\* sep.join(parts)
RECURSIVE Join(_, _)
Join(sep, parts) ==
    IF Len(parts) = 0 THEN ""
    ELSE IF Len(parts) = 1 THEN parts[1]
    ELSE parts[1] \o sep \o Join(sep, Tail(parts))

\* str(bool)
PyStr(b) == IF b THEN "True" ELSE "False"

\* bool(str)
PyBool(s) == Len(s) > 0

HexDigits ==
    {"0", "1", "2", "3", "4", "5", "6", "7", "8", "9",
     "a", "b", "c", "d", "e", "f", "A", "B", "C", "D", "E", "F"}

\* the character a percent escape %XY stands for.  The texts of the model
\* are over TextAlphabet, whose only hexadecimal digit is 2.
PercentChar(xy) ==
    CASE xy = "22" -> "\""
      [] xy = "20" -> " "
      [] xy = "25" -> "%"
      [] xy = "5F" -> "_"
      [] xy = "5f" -> "_"

\* urllib.parse.unquote
RECURSIVE Unquote(_)
Unquote(s) ==
    IF Len(s) = 0 THEN s
    ELSE IF /\ Char(s, 1) = "%"
            /\ Len(s) >= 3
            /\ Char(s, 2) \in HexDigits
            /\ Char(s, 3) \in HexDigits
         THEN PercentChar(SubSeq(s, 2, 3)) \o Unquote(SubSeq(s, 4, Len(s)))
         ELSE Char(s, 1) \o Unquote(SubSeq(s, 2, Len(s)))

clean_text(value) == Replace(Unquote(value), "_", " ")

\* clean_data on a dataset record: every string of the nested structure
clean_data(doc) ==
    [title    |-> clean_text(doc.title),
     context  |-> clean_text(doc.context),
     question |-> clean_text(doc.question),
     answers  |-> [text |-> [i \in DOMAIN doc.answers.text |->
                                clean_text(doc.answers.text[i])]]]

----------------------------------------------------------------------------
(* src/ingest.py                                                           *)

COLLECTION_NAME == "squad_v2"

\* a slip: has_answer taken from the record's answer list instead of the
\* stored answer
PrepareDocRawFlag(doc) ==
    LET embedding_text ==
            "Question: " \o doc.question \o " Context: " \o doc.context
        answer ==
            IF Len(doc.answers.text) > 0
            THEN Replace(doc.answers.text[1], "\"", "")
            ELSE ""
    IN  [text     |-> embedding_text,
         metadata |-> [title      |-> doc.title,
                       context    |-> Replace(doc.context, "\n", " "),
                       question   |-> Replace(doc.question, "\n", " "),
                       answer     |-> answer,
                       has_answer |-> Len(doc.answers.text) > 0]]

\* one iteration of the loop of prepare_data, on a cleaned record
PrepareDoc(doc) ==
    LET embedding_text ==
            "Question: " \o doc.question \o " Context: " \o doc.context
        answer ==
            IF Len(doc.answers.text) > 0
            THEN Replace(doc.answers.text[1], "\"", "")
            ELSE ""
    IN  [text     |-> embedding_text,
         metadata |-> [title      |-> doc.title,
                       context    |-> Replace(doc.context, "\n", " "),
                       question   |-> Replace(doc.question, "\n", " "),
                       answer     |-> answer,
                       has_answer |-> PyBool(answer)]]

prepare_data(d) == [i \in DOMAIN d |-> PrepareDoc(clean_data(d[i]))]

\* the points create_embeddings builds; ids are fresh uuid4 values
MakePoints(documents, firstId) ==
    [i \in DOMAIN documents |->
        [id      |-> firstId + i - 1,
         text    |-> documents[i].text,
         payload |-> [metadata |-> documents[i].metadata]]]

----------------------------------------------------------------------------
(* src/app/llm_assistant.py                                                *)

dense_model == "jinaai/jina-embeddings-v2-small-en"
sparse_model == "Qdrant/bm25"
collection_name == "squad_rag"
DefaultLimit == 2
DefaultModel == "openai/gpt-oss-20b"

\* int(x) of the quotient n / d: truncation towards zero
IntTrunc(n, d) == IF n >= 0 THEN n \div d ELSE -((-n) \div d)

\* a slip: the elapsed time rounded up instead of truncated
ElapsedMsCeil(start_time, end_time) ==
    (end_time - start_time + TicksPerMs - 1) \div TicksPerMs

\* int((end_time - start_time) * 1000), the clock counting TicksPerMs ticks
\* to the millisecond
ElapsedMs(start_time, end_time) == IntTrunc(end_time - start_time, TicksPerMs)

\* a slip: the prefetch limit passed as the limit of the fused result
QueryRequestWide(q, limit) ==
    [collection_name |-> collection_name,
     prefetch        |-> <<[text |-> q, model |-> dense_model,
                            using |-> "jina-small", limit |-> 3 * limit],
                           [text |-> q, model |-> sparse_model,
                            using |-> "bm25", limit |-> 3 * limit]>>,
     fusion          |-> "RRF",
     with_payload    |-> TRUE,
     limit           |-> 3 * limit]

\* the request rrf_search sends to query_points
QueryRequest(q, limit) ==
    [collection_name |-> collection_name,
     prefetch        |-> <<[text |-> q, model |-> dense_model,
                            using |-> "jina-small", limit |-> 3 * limit],
                           [text |-> q, model |-> sparse_model,
                            using |-> "bm25", limit |-> 3 * limit]>>,
     fusion          |-> "RRF",
     with_payload    |-> TRUE,
     limit           |-> limit]

\* The vector store's answers to a request, other than raising: it raises
\* on a collection it does not hold; otherwise it returns at most
\* request.limit distinct points of the collection, and a point embedded
\* from exactly the query text, when there is one, comes first.
StoreAnswers(colls, request) ==
    IF request.collection_name \notin DOMAIN colls THEN {}
    ELSE LET stored == colls[request.collection_name]
             hits   == {p \in stored : p.text = request.prefetch[1].text}
         IN  {[points |-> [i \in DOMAIN s |->
                              [id |-> s[i].id, payload |-> s[i].payload]]] :
                s \in {t \in InjSeqs(stored, request.limit) :
                         (hits # {} /\ request.limit >= 1)
                             => (Len(t) >= 1 /\ t[1] \in hits)}}

\* what rrf_search returns once query_points has answered
RrfReturnValue(res, start_time, end_time) ==
    [points               |-> res.points,
     retrieval_time_ms    |-> ElapsedMs(start_time, end_time),
     retrieved_docs_count |-> Len(res.points)]

SystemLine1 ==
    "You are a precise and reliable assistant. Your goal is to answer the question using *only* the information provided in the CONTEXT. Do not guess or make up any information.\n"
SystemLine2 ==
    "            Instructions:\n"
SystemLine3 ==
    "            - If the `Has_answer` flag is False, check the context carefully for relevant details. If no answer is clearly supported, reply with: \"I don't know. This is beyong my knowledge base.\"\n"
SystemLine4 ==
    "            - If the answer *is* supported in the context, rephrase and present it clearly and concisely, ensuring it is directly grounded in the information provided.\n"
SystemLine5 ==
    "            - Do not use any external knowledge or assumptions. Stick strictly to the *CONTEXT*.\n"
SystemLine6 ==
    "            - Do not fabricate answers or speculate beyond the given information."

SystemContent ==
    SystemLine1 \o SystemLine2 \o SystemLine3 \o SystemLine4 \o SystemLine5
        \o SystemLine6

\* the block build_prompt renders for one retrieved point
ContextBlock(res) ==
    LET md == res.payload.metadata
    IN  Ljust("Context:", 10) \o md.context \o "\n"
        \o Ljust("Question:", 10) \o md.question \o "\n"
        \o Ljust("Answer:", 10) \o md.answer \o "\n"
        \o Ljust("Has_answer:", 10) \o PyStr(md.has_answer)

build_prompt(q, pts) ==
    LET context == Join("\n\n", [i \in DOMAIN pts |-> ContextBlock(pts[i])])
    IN  <<[role |-> "system", content |-> SystemContent],
          [role    |-> "user",
           content |-> "QUESTION:\n " \o q \o "\n CONTEXT:\n "
                           \o Strip(context)]>>

\* what llm_response returns for a response with a first choice
LlmReturnValue(resp, model, start_time, end_time) ==
    [content |-> resp.choices[1].message.content,
     metrics |-> [total_tokens       |-> resp.usage.total_tokens,
                  generation_time_ms |-> ElapsedMs(start_time, end_time),
                  model_used         |-> model]]

\* {**a, **b}
Merge(a, b) ==
    [k \in DOMAIN a \cup DOMAIN b |-> IF k \in DOMAIN b THEN b[k] ELSE a[k]]

\* a slip: the fallback literal substituted when nothing was retrieved
RagReturnValueFallback(sr, lr, start_time, end_time) ==
    [answer  |-> IF sr.retrieved_docs_count = 0
                 THEN "I don't know. This is beyond my knowledge base."
                 ELSE lr.content,
     metrics |-> Merge(lr.metrics,
                       [retrieval_time_ms    |-> sr.retrieval_time_ms,
                        total_time_ms        |-> ElapsedMs(start_time, end_time),
                        retrieved_docs_count |-> sr.retrieved_docs_count,
                        qdrant_collection    |-> collection_name])]

\* what rag returns
RagReturnValue(sr, lr, start_time, end_time) ==
    [answer  |-> lr.content,
     metrics |-> Merge(lr.metrics,
                       [retrieval_time_ms    |-> sr.retrieval_time_ms,
                        total_time_ms        |-> ElapsedMs(start_time, end_time),
                        retrieved_docs_count |-> sr.retrieved_docs_count,
                        qdrant_collection    |-> collection_name])]

----------------------------------------------------------------------------
(* src/app/database.py                                                     *)

\* the parameters of log_answer, none of which has a default
LogAnswerParams ==
    {"question_id", "answer_text", "model_used", "confidence_score",
     "retrieval_time_ms", "generation_time_ms", "total_time_ms",
     "qdrant_collection", "retrieved_docs_count", "total_tokens"}

\* the row log_question inserts
QuestionRow(id, question_text, user_id, session_id) ==
    [id |-> id, question_text |-> question_text, user_id |-> user_id,
     session_id |-> session_id]

\* the row log_answer inserts
AnswerRow(id, kw) ==
    [id |-> id, question_id |-> kw.question_id,
     answer_text |-> kw.answer_text, model_used |-> kw.model_used,
     confidence_score |-> kw.confidence_score,
     retrieval_time_ms |-> kw.retrieval_time_ms,
     generation_time_ms |-> kw.generation_time_ms,
     total_time_ms |-> kw.total_time_ms,
     qdrant_collection |-> kw.qdrant_collection,
     retrieved_docs_count |-> kw.retrieved_docs_count,
     total_tokens |-> kw.total_tokens]

----------------------------------------------------------------------------
(* src/app/app.py: the chat input handler                                  *)

SessionId == "session"

\* the keys of result, and of result["metrics"], the handler reads in
\* building the arguments of log_answer, in the order it reads them
ResultReads == <<"answer", "context_used">>
MetricsReads ==
    <<"model_used", "retrieval_time_ms", "generation_time_ms",
      "total_time_ms", "qdrant_collection", "retrieved_docs_count",
      "prompt_tokens", "completion_tokens", "total_tokens">>

\* the keyword arguments the handler passes to log_answer
LogAnswerKwargs ==
    {"question_id", "answer_text", "context_used", "model_used",
     "confidence_score", "retrieval_time_ms", "generation_time_ms",
     "total_time_ms", "qdrant_collection", "retrieved_docs_count",
     "prompt_tokens", "completion_tokens", "total_tokens"}

Range(s) == {s[i] : i \in DOMAIN s}

\* the keys the handler reads that r does not hold
MissingKeys(r) ==
    (Range(ResultReads) \ DOMAIN r) \cup (Range(MetricsReads) \ DOMAIN r.metrics)

Exception(type, at) == [type |-> type, at |-> at]

\* the outcome of an external call that raises
Raises == [raises |-> TRUE]

----------------------------------------------------------------------------
(* Inputs and the environment                                              *)

\* the chat inputs submitted
Queries == {"What is the capital of France?", "Which letters remain distinct?"}

\* dataset records already in the store when the application starts
SampleRecords ==
    <<[title |-> "Old_English", context |-> "Some letters\nremain distinct.",
       question |-> "Which letters remain distinct?",
       answers |-> [text |-> <<"thorn and \"wynn\"">>]],
      [title |-> "Normans", context |-> "The Normans were in Normandy.",
       question |-> "Who ruled the moon?",
       answers |-> [text |-> <<>>]],
      [title |-> "Oxygen", context |-> "Oxygen is a gas.",
       question |-> "What is oxygen?",
       answers |-> [text |-> <<"a gas", "gas">>]]>>

SamplePoints == Range(MakePoints(prepare_data(SampleRecords), 101))

\* the states the vector store may be in when the application starts
StoreStates ==
    {<<>>,
     [n \in {collection_name} |-> {}],
     [n \in {collection_name} |-> SamplePoints]}

\* the text the system turn tells the model to reply with
PromptFallback == "I don't know. This is beyong my knowledge base."

\* the fallback literal of the grounding contract
FALLBACK == "I don't know. This is beyond my knowledge base."

Usage == [prompt_tokens |-> 7, completion_tokens |-> 3, total_tokens |-> 10]

\* the responses of the LLM completion service, other than raising
LlmResponses ==
    {[choices |-> <<>>, usage |-> Usage]} \cup
    {[choices |-> <<[message |-> [content |-> t]]>>, usage |-> Usage] :
        t \in {FALLBACK, PromptFallback, "Paris"}}

----------------------------------------------------------------------------
(* The chat handler and the pipeline it calls, step by step                *)

ChatInit ==
    /\ now = 0
    /\ pc = "idle"
    /\ nq = 0
    /\ query = ""
    /\ messages = <<>>
    /\ questions = {}
    /\ answers = {}
    /\ nextId = 1
    /\ question_id = None
    /\ rag_start = 0
    /\ rrf_start = 0
    /\ results = None
    /\ search_results = None
    /\ prompt = None
    /\ llm_start = 0
    /\ response = None
    /\ llm_result = None
    /\ result = None
    /\ exc = None
    /\ calls = <<>>
    /\ sent = None

IngestIdle ==
    /\ ipc = "off"
    /\ data = <<>>
    /\ prepared_data = <<>>
    /\ points = <<>>
    /\ found = None

FusionIdle ==
    /\ dense = <<>>
    /\ sparse = <<>>
    /\ fused = None

\* the locals of one run of the handler, before it assigns them
FreshLocals ==
    /\ question_id' = None
    /\ rag_start' = 0
    /\ rrf_start' = 0
    /\ results' = None
    /\ search_results' = None
    /\ prompt' = None
    /\ llm_start' = 0
    /\ response' = None
    /\ llm_result' = None
    /\ result' = None
    /\ exc' = None
    /\ calls' = <<>>
    /\ sent' = None

\* an exception leaves the try block for the except clause of app.py:177
Raise(type, at) ==
    /\ exc' = Exception(type, at)
    /\ pc' = "except"

\* time passes
Tick ==
    /\ now < MaxClock
    /\ now' = now + 1
    /\ UNCHANGED <<pc, nq, query, messages, questions, answers, nextId,
                   question_id, rag_start, rrf_start, results, search_results,
                   prompt, llm_start, response, llm_result, result, exc, calls>>
    /\ UNCHANGED <<sent, collections, ingestVars, fusionVars>>

\* app.py:96-107: a chat input arrives; the script has just probed the two
\* services (app.py:32-52)
Submit ==
    /\ pc = "idle"
    /\ nq < MaxQueries
    /\ \E q \in Queries, postgres_connected \in BOOLEAN,
          qdrant_connected \in BOOLEAN :
          /\ query' = q
          /\ nq' = nq + 1
          /\ FreshLocals
          /\ IF ~(postgres_connected /\ qdrant_connected)
             THEN /\ pc' = "stopped"
                  /\ UNCHANGED messages
             ELSE /\ pc' = "log_question"
                  /\ messages' =
                        Append(messages, [role |-> "user", content |-> q])
    /\ UNCHANGED <<now, questions, answers, nextId>>
    /\ UNCHANGED <<collections, ingestVars, fusionVars>>

\* app.py:99-100: st.error, st.stop; the script waits for the next input
Stop ==
    /\ pc = "stopped"
    /\ pc' = "idle"
    /\ UNCHANGED <<now, nq, query, messages, questions, answers, nextId,
                   question_id, rag_start, rrf_start, results, search_results,
                   prompt, llm_start, response, llm_result, result, exc, calls>>
    /\ UNCHANGED <<sent, collections, ingestVars, fusionVars>>

\* app.py:114-118, database.py:24-46
LogQuestion ==
    /\ pc = "log_question"
    /\ calls' = Append(calls, "log_question")
    /\ \E ok \in BOOLEAN :
          IF ok
          THEN /\ questions' = questions \cup
                      {QuestionRow(nextId, query, "streamlit_user", SessionId)}
               /\ question_id' = nextId
               /\ nextId' = nextId + 1
               /\ pc' = "rag"
               /\ UNCHANGED exc
          ELSE /\ Raise("OperationalError", "log_question")
               /\ UNCHANGED <<questions, question_id, nextId>>
    /\ UNCHANGED <<now, nq, query, messages, answers, rag_start, rrf_start,
                   results, search_results, prompt, llm_start, response,
                   llm_result, result>>
    /\ UNCHANGED <<sent, collections, ingestVars, fusionVars>>

\* app.py:121, llm_assistant.py:111
RagStart ==
    /\ pc = "rag"
    /\ calls' = Append(calls, "rag")
    /\ rag_start' = now
    /\ pc' = "rrf_search"
    /\ UNCHANGED <<now, nq, query, messages, questions, answers, nextId,
                   question_id, rrf_start, results, search_results, prompt,
                   llm_start, response, llm_result, result, exc>>
    /\ UNCHANGED <<sent, collections, ingestVars, fusionVars>>

\* llm_assistant.py:114, 24
RrfStart ==
    /\ pc = "rrf_search"
    /\ rrf_start' = now
    /\ pc' = "query_points"
    /\ UNCHANGED <<now, nq, query, messages, questions, answers, nextId,
                   question_id, rag_start, results, search_results, prompt,
                   llm_start, response, llm_result, result, exc, calls>>
    /\ UNCHANGED <<sent, collections, ingestVars, fusionVars>>

\* llm_assistant.py:26-44: the vector store answers or the call raises
QueryPoints ==
    /\ pc = "query_points"
    /\ calls' = Append(calls, "query_points")
    /\ \E out \in {Raises} \cup
                  StoreAnswers(collections, QueryRequest(query, DefaultLimit)) :
          IF out = Raises
          THEN /\ Raise("UnexpectedResponse", "query_points")
               /\ UNCHANGED results
          ELSE /\ results' = out
               /\ pc' = "rrf_return"
               /\ UNCHANGED exc
    /\ UNCHANGED <<now, nq, query, messages, questions, answers, nextId,
                   question_id, rag_start, rrf_start, search_results, prompt,
                   llm_start, response, llm_result, result>>
    /\ UNCHANGED <<sent, collections, ingestVars, fusionVars>>

\* llm_assistant.py:46-53
RrfReturn ==
    /\ pc = "rrf_return"
    /\ search_results' = RrfReturnValue(results, rrf_start, now)
    /\ pc' = "build_prompt"
    /\ UNCHANGED <<now, nq, query, messages, questions, answers, nextId,
                   question_id, rag_start, rrf_start, results, prompt,
                   llm_start, response, llm_result, result, exc, calls>>
    /\ UNCHANGED <<sent, collections, ingestVars, fusionVars>>

\* llm_assistant.py:117
BuildPrompt ==
    /\ pc = "build_prompt"
    /\ prompt' = build_prompt(query, search_results.points)
    /\ pc' = "llm_response"
    /\ UNCHANGED <<now, nq, query, messages, questions, answers, nextId,
                   question_id, rag_start, rrf_start, results, search_results,
                   llm_start, response, llm_result, result, exc, calls>>
    /\ UNCHANGED <<sent, collections, ingestVars, fusionVars>>

\* llm_assistant.py:118, 88-90
LlmStart ==
    /\ pc = "llm_response"
    /\ llm_start' = now
    /\ pc' = "create"
    /\ UNCHANGED <<now, nq, query, messages, questions, answers, nextId,
                   question_id, rag_start, rrf_start, results, search_results,
                   prompt, response, llm_result, result, exc, calls>>
    /\ UNCHANGED <<sent, collections, ingestVars, fusionVars>>

\* a slip: a completion call that raises is tried once more
CreateRetries ==
    /\ pc = "create"
    /\ calls' = Append(calls, "create")
    /\ sent' = prompt
    /\ \E out \in {Raises} \cup LlmResponses :
          IF out = Raises
          THEN /\ IF "create" \in Range(calls)
                  THEN Raise("APIError", "create")
                  ELSE UNCHANGED <<pc, exc>>
               /\ UNCHANGED response
          ELSE /\ response' = out
               /\ pc' = "llm_return"
               /\ UNCHANGED exc
    /\ UNCHANGED <<now, nq, query, messages, questions, answers, nextId,
                   question_id, rag_start, rrf_start, results, search_results,
                   prompt, llm_start, llm_result, result>>
    /\ UNCHANGED <<collections, ingestVars, fusionVars>>

\* llm_assistant.py:91: the completion service answers or the call raises
Create ==
    /\ pc = "create"
    /\ calls' = Append(calls, "create")
    /\ sent' = prompt
    /\ \E out \in {Raises} \cup LlmResponses :
          IF out = Raises
          THEN /\ Raise("APIError", "create")
               /\ UNCHANGED response
          ELSE /\ response' = out
               /\ pc' = "llm_return"
               /\ UNCHANGED exc
    /\ UNCHANGED <<now, nq, query, messages, questions, answers, nextId,
                   question_id, rag_start, rrf_start, results, search_results,
                   prompt, llm_start, llm_result, result>>
    /\ UNCHANGED <<collections, ingestVars, fusionVars>>

\* a slip: llm_response swallows the missing choice and answers with an
\* empty text
LlmReturnSwallows ==
    /\ pc = "llm_return"
    /\ llm_result' =
          [content |-> IF Len(response.choices) = 0 THEN ""
                       ELSE response.choices[1].message.content,
           metrics |-> [total_tokens       |-> response.usage.total_tokens,
                        generation_time_ms |-> ElapsedMs(llm_start, now),
                        model_used         |-> DefaultModel]]
    /\ pc' = "rag_return"
    /\ UNCHANGED <<now, nq, query, messages, questions, answers, nextId,
                   question_id, rag_start, rrf_start, results, search_results,
                   prompt, llm_start, response, result, exc, calls>>
    /\ UNCHANGED <<sent, collections, ingestVars, fusionVars>>

\* llm_assistant.py:93-106: response.choices[0] raises IndexError on an
\* empty list
LlmReturn ==
    /\ pc = "llm_return"
    /\ IF Len(response.choices) = 0
       THEN /\ Raise("IndexError", "llm_response")
            /\ UNCHANGED llm_result
       ELSE /\ llm_result' =
                  LlmReturnValue(response, DefaultModel, llm_start, now)
            /\ pc' = "rag_return"
            /\ UNCHANGED exc
    /\ UNCHANGED <<now, nq, query, messages, questions, answers, nextId,
                   question_id, rag_start, rrf_start, results, search_results,
                   prompt, llm_start, response, result, calls>>
    /\ UNCHANGED <<sent, collections, ingestVars, fusionVars>>

\* llm_assistant.py:120-132, app.py:121
RagReturn ==
    /\ pc = "rag_return"
    /\ result' = RagReturnValue(search_results, llm_result, rag_start, now)
    /\ pc' = "log_answer"
    /\ UNCHANGED <<now, nq, query, messages, questions, answers, nextId,
                   question_id, rag_start, rrf_start, results, search_results,
                   prompt, llm_start, response, llm_result, exc, calls>>
    /\ UNCHANGED <<sent, collections, ingestVars, fusionVars>>

\* the arguments of app.py:127-141, once every key read is there
HandlerKwargs ==
    [question_id          |-> question_id,
     answer_text          |-> result.answer,
     context_used         |-> result.context_used,
     model_used           |-> result.metrics.model_used,
     confidence_score     |-> None,
     retrieval_time_ms    |-> result.metrics.retrieval_time_ms,
     generation_time_ms   |-> result.metrics.generation_time_ms,
     total_time_ms        |-> result.metrics.total_time_ms,
     qdrant_collection    |-> result.metrics.qdrant_collection,
     retrieved_docs_count |-> result.metrics.retrieved_docs_count,
     prompt_tokens        |-> result.metrics.prompt_tokens,
     completion_tokens    |-> result.metrics.completion_tokens,
     total_tokens         |-> result.metrics.total_tokens]

\* app.py:124-175, database.py:49-95: reading a key result does not hold
\* raises KeyError; a keyword log_answer does not take, or a parameter left
\* out, raises TypeError; otherwise the row is inserted (or the store
\* raises) and the assistant message appended
LogAnswer ==
    /\ pc = "log_answer"
    /\ IF MissingKeys(result) # {}
       THEN /\ Raise("KeyError", "app")
            /\ UNCHANGED <<answers, nextId, messages, calls>>
       ELSE IF LogAnswerKwargs # LogAnswerParams
       THEN /\ Raise("TypeError", "log_answer")
            /\ UNCHANGED <<answers, nextId, messages, calls>>
       ELSE /\ calls' = Append(calls, "log_answer")
            /\ \E ok \in BOOLEAN :
                  IF ok
                  THEN /\ answers' = answers \cup
                                        {AnswerRow(nextId, HandlerKwargs)}
                       /\ nextId' = nextId + 1
                       /\ messages' = Append(messages,
                              [role      |-> "assistant",
                               content   |-> result.answer,
                               metrics   |-> result.metrics,
                               answer_id |-> nextId])
                       /\ pc' = "idle"
                       /\ UNCHANGED exc
                  ELSE /\ Raise("OperationalError", "log_answer")
                       /\ UNCHANGED <<answers, nextId, messages>>
    /\ UNCHANGED <<now, nq, query, questions, question_id, rag_start,
                   rrf_start, results, search_results, prompt, llm_start,
                   response, llm_result, result>>
    /\ UNCHANGED <<sent, collections, ingestVars, fusionVars>>

\* a slip: the except clause takes the user message back
ExceptUndoes ==
    /\ pc = "except"
    /\ pc' = "idle"
    /\ FreshLocals
    /\ messages' = SubSeq(messages, 1, Len(messages) - 1)
    /\ UNCHANGED <<now, nq, query, questions, answers, nextId>>
    /\ UNCHANGED <<collections, ingestVars, fusionVars>>

\* app.py:177-185: the error is shown and the script run ends, its locals
\* with it; the script waits for the next input
Except ==
    /\ pc = "except"
    /\ pc' = "idle"
    /\ FreshLocals
    /\ UNCHANGED <<now, nq, query, messages, questions, answers, nextId>>
    /\ UNCHANGED <<collections, ingestVars, fusionVars>>

\* app.py:165-185: the feedback buttons and the footer are drawn and the
\* script run ends, its locals with it
Finish ==
    /\ pc = "done"
    /\ pc' = "idle"
    /\ FreshLocals
    /\ UNCHANGED <<now, nq, query, messages, questions, answers, nextId>>
    /\ UNCHANGED <<collections, ingestVars, fusionVars>>

Init ==
    /\ ChatInit
    /\ collections \in StoreStates
    /\ IngestIdle
    /\ FusionIdle

Next ==
    \/ Tick
    \/ Submit
    \/ Stop
    \/ LogQuestion
    \/ RagStart
    \/ RrfStart
    \/ QueryPoints
    \/ RrfReturn
    \/ BuildPrompt
    \/ LlmStart
    \/ Create
    \/ LlmReturn
    \/ RagReturn
    \/ LogAnswer
    \/ Except

Spec == Init /\ [][Next]_vars

----------------------------------------------------------------------------
(* Claims about the chat handler and the pipeline                          *)

\* the handler's run has ended, by the except clause or by its last line
RunEnded == pc \in {"except", "done"}

\* rag has built its prompt in the current run
PromptBuilt == "rag" \in Range(calls) /\ prompt # None

\* C1: whenever log_question and rag have both returned, the handler
\* persists the answer: log_answer is called with the question's id and the
\* answer text, and, unless the insert itself raises, the row is in table
\* answers and the assistant message carrying the answer ends the session's
\* message list.
C1_AnswerPersisted ==
    (RunEnded /\ result # None) =>
        /\ "log_answer" \in Range(calls)
        /\ exc = None =>
              /\ \E row \in answers :
                    /\ row.question_id = question_id
                    /\ row.answer_text = result.answer
              /\ messages[Len(messages)].role = "assistant"
              /\ messages[Len(messages)].content = result.answer

\* C2: the system turn build_prompt produces contains the fallback literal
\* "I don't know. This is beyond my knowledge base." character for
\* character.
C2_SystemTurnHasFallback ==
    PromptBuilt =>
        /\ prompt[1].role = "system"
        /\ Contains(prompt[1].content, FALLBACK)

\* C3 as claimed: when the vector store returns zero points, the answer rag
\* returns is the fallback literal, whatever the LLM service returns.
C3_ZeroPointsAnswerIsFallback ==
    (result # None /\ result.metrics.retrieved_docs_count = 0) =>
        result.answer = FALLBACK

\* C3 as amended: when the vector store returns zero points, retrieval and
\* prompt building do not fail (retrieved_docs_count is 0, the prompt is
\* built with an empty context), and the answer rag returns is the text of
\* the LLM service's first choice, unchanged.
C3_ZeroPointsAnswerIsLlmText ==
    (results # None /\ Len(results.points) = 0) =>
        /\ pc = "except" => exc.at \notin {"query_points", "rrf_search",
                                           "build_prompt"}
        /\ search_results # None => search_results.retrieved_docs_count = 0
        /\ PromptBuilt =>
              prompt[2].content =
                  "QUESTION:\n " \o query \o "\n CONTEXT:\n "
        /\ result # None =>
              /\ result.metrics.retrieved_docs_count = 0
              /\ result.answer = response.choices[1].message.content

\* rag has returned the LLM's own text for a query with no point retrieved
C3_Witness ==
    /\ result # None
    /\ result.metrics.retrieved_docs_count = 0
    /\ result.answer = "Paris"

Last(s) == s[Len(s)]

\* C4: a completion call that raises, or that returns no choice, and a
\* vector store query that raises, each end the run in the caller's except
\* clause with the error of the failing call: rag returns no result, no
\* answer is substituted, and after a failed vector store query no LLM call
\* is made.
C4_FailuresPropagate ==
    /\ (response # None /\ Len(response.choices) = 0 /\ pc # "llm_return") =>
          /\ pc = "except"
          /\ exc = Exception("IndexError", "llm_response")
          /\ llm_result = None
          /\ result = None
    /\ (calls # <<>> /\ Last(calls) = "create" /\ response = None) =>
          /\ pc = "except"
          /\ exc = Exception("APIError", "create")
          /\ llm_result = None
          /\ result = None
    /\ (calls # <<>> /\ Last(calls) = "query_points" /\ results = None) =>
          /\ pc = "except"
          /\ exc = Exception("UnexpectedResponse", "query_points")
          /\ search_results = None
          /\ result = None
    /\ (pc = "except" /\ exc.at = "query_points") =>
          "create" \notin Range(calls)

\* the completion call returned no choice and the run ended in the except
\* clause with the IndexError
C4_Witness ==
    /\ pc = "except"
    /\ exc.type = "IndexError"
    /\ Last(calls) = "create"

\* C5: in every result of rag, total_time_ms is at least the sum of
\* retrieval_time_ms and generation_time_ms.
C5_TotalTimeCoversPhases ==
    result # None =>
        result.metrics.total_time_ms >=
            result.metrics.retrieval_time_ms
                + result.metrics.generation_time_ms

\* retrieval took a whole millisecond or more, and truncation makes the
\* total strictly larger than the sum of the two phases
C5_Witness ==
    /\ result # None
    /\ result.metrics.retrieval_time_ms >= 1
    /\ result.metrics.total_time_ms >
          result.metrics.retrieval_time_ms + result.metrics.generation_time_ms

\* C9: a submitted query with both services connected has rag invoked,
\* whether log_question returns or raises.
C9_RagRunsWhateverLogging ==
    RunEnded => "rag" \in Range(calls)

\* the calls of the pipeline to its two services, in order
PipelineCalls == SelectSeq(calls, LAMBDA c : c \in {"query_points", "create"})

\* C11: an invocation of rag makes exactly one vector store query and then
\* exactly one completion call: the completion call is made only after the
\* retrieval has returned, with the prompt built from the invocation's
\* query and the points retrieved, and no call is made twice.
C11_OneQueryThenOneCompletion ==
    /\ PipelineCalls \in {<<>>, <<"query_points">>,
                          <<"query_points", "create">>}
    /\ Len(SelectSeq(calls, LAMBDA c : c = "rag")) <= 1
    /\ PipelineCalls # <<>> => "rag" \in Range(calls)
    /\ "create" \in Range(calls) =>
          /\ results # None
          /\ search_results # None
          /\ search_results.points = results.points
          /\ sent = build_prompt(query, results.points)
    /\ result # None => PipelineCalls = <<"query_points", "create">>

\* rag has returned after retrieving two points and sending their prompt
C11_Witness ==
    /\ result # None
    /\ PipelineCalls = <<"query_points", "create">>
    /\ Len(results.points) = 2
    /\ sent = build_prompt(query, results.points)

IsPrefix(a, b) == Len(a) <= Len(b) /\ SubSeq(b, 1, Len(a)) = a

CountRole(role) == Len(SelectSeq(messages, LAMBDA m : m.role = role))

UserMessage == [role |-> "user", content |-> query]

\* log_question has returned in the current run
QuestionLogged ==
    /\ "log_question" \in Range(calls)
    /\ ~(pc = "except" /\ exc.at = "log_question")

\* the state part of C12
C12_State ==
    /\ pc \notin {"idle", "stopped"} =>
          /\ messages # <<>>
          /\ pc # "done" => Last(messages) = UserMessage
    /\ "rag" \in Range(calls) => QuestionLogged
    /\ QuestionLogged =>
          QuestionRow(question_id, query, "streamlit_user", SessionId)
              \in questions
    /\ (pc = "except" /\ QuestionLogged) =>
          /\ \A row \in answers : row.question_id # question_id
          /\ Last(messages) = UserMessage
    /\ \A q \in questions : q.id < nextId
    /\ \A row \in answers : row.id < nextId
    /\ CountRole("assistant") <= CountRole("user")

\* the step part of C12: no row and no message is ever taken back; an
\* answer row is only added for the question of the current run, and an
\* assistant message only right after that run's user message
C12_Step ==
    /\ questions \subseteq questions'
    /\ answers \subseteq answers'
    /\ IsPrefix(messages, messages')
    /\ \A row \in answers' \ answers :
          pc = "log_answer" /\ row.question_id = question_id
    /\ messages' # messages =>
          /\ Len(messages') = Len(messages) + 1
          /\ Last(messages').role = "assistant" =>
                (pc = "log_answer" /\ Last(messages) = UserMessage)

\* C12: the user message is appended and the question row inserted before
\* rag is called, and neither is undone on failure: a query whose
\* processing raised after log_question returned leaves its question row
\* with no answer row and its user message with no assistant message after
\* it, for good; and the assistant messages never outnumber the user
\* messages.
C12_FailedQueryKeepsQuestion == [](C12_State) /\ [][C12_Step]_vars

\* two queries have failed after their question was logged: two question
\* rows, no answer row, two user messages and no assistant message
C12_Witness ==
    /\ pc = "idle"
    /\ Cardinality(questions) = 2
    /\ answers = {}
    /\ Len(messages) = 2
    /\ CountRole("user") = 2

----------------------------------------------------------------------------
(* The ingestion script, and direct calls of rrf_search and rag on the     *)
(* store it leaves                                                         *)

TextAlphabet == {"%", "2", "\"", "_", "x"}

\* the texts over TextAlphabet of length at most n
RECURSIVE Texts(_)
Texts(n) ==
    IF n = 0 THEN {""}
    ELSE Texts(n - 1) \cup {t \o c : t \in Texts(n - 1), c \in TextAlphabet}

\* the answer lists of a dataset record
AnswerLists ==
    {<<>>} \cup {<<a>> : a \in Texts(MaxAnswerLen)}
           \cup {<<a, b>> : a, b \in {"", "x\"", "\"\""}}

RecordWith(answer_list) ==
    [title |-> "Old_English", context |-> "Some letters\nremain%20distinct.",
     question |-> "Which letters remain distinct?",
     answers |-> [text |-> answer_list]]

\* the datasets load_data may return
InputData ==
    {<<>>, SampleRecords} \cup {<<RecordWith(al)>> : al \in AnswerLists}

\* rrf_search as one step: the outcome for the store's answer out
RrfSearchOutcome(out, t) ==
    IF out = Raises THEN Raises ELSE RrfReturnValue(out, t, t)

\* rag as one step: the outcome for the store's answer vs and the
\* completion service's answer llm
RagOutcome(vs, llm, t) ==
    IF vs = Raises THEN Raises
    ELSE IF llm = Raises THEN Raises
    ELSE IF Len(llm.choices) = 0 THEN Raises
    ELSE RagReturnValue(RrfReturnValue(vs, t, t),
                        LlmReturnValue(llm, DefaultModel, t, t), t, t)

IngestInit ==
    /\ ipc = "load"
    /\ data = <<>>
    /\ prepared_data = <<>>
    /\ points = <<>>
    /\ found = None

\* ingest.py:91, 17-24
LoadData ==
    /\ ipc = "load"
    /\ data' \in InputData
    /\ ipc' = "prepare"
    /\ UNCHANGED <<prepared_data, points, found, collections>>
    /\ UNCHANGED <<chatVars, fusionVars>>

\* ingest.py:92, 27-52
PrepareData ==
    /\ ipc = "prepare"
    /\ prepared_data' = prepare_data(data)
    /\ ipc' = "create"
    /\ UNCHANGED <<data, points, found, collections>>
    /\ UNCHANGED <<chatVars, fusionVars>>

\* ingest.py:93, 55-81
CreateEmbeddings ==
    /\ ipc = "create"
    /\ collections' =
          [n \in DOMAIN collections \cup {COLLECTION_NAME} |->
              IF n = COLLECTION_NAME THEN {} ELSE collections[n]]
    /\ points' = MakePoints(prepared_data, 1)
    /\ ipc' = "ingest"
    /\ UNCHANGED <<data, prepared_data, found>>
    /\ UNCHANGED <<chatVars, fusionVars>>

\* ingest.py:94, 84-87
IngestData ==
    /\ ipc = "ingest"
    /\ collections' =
          [collections EXCEPT ![COLLECTION_NAME] = @ \cup Range(points)]
    /\ ipc' = "done"
    /\ UNCHANGED <<data, prepared_data, points, found>>
    /\ UNCHANGED <<chatVars, fusionVars>>

\* the queries tried on the store: the chat inputs, and the exact text of
\* each prepared document
SearchQueries == Queries \cup {prepared_data[i].text : i \in DOMAIN prepared_data}

\* llm_assistant.py:22-53: rrf_search(q, limit) on the store after
\* ingestion.  The calls are independent of each other: one is followed per
\* behaviour.
Search ==
    /\ ipc = "done"
    /\ found = None
    /\ \E q \in SearchQueries, limit \in 1..MaxLimit :
          \E out \in {Raises} \cup
                     StoreAnswers(collections, QueryRequest(q, limit)) :
             found' = [call |-> "rrf_search", query |-> q, limit |-> limit,
                       out |-> RrfSearchOutcome(out, now)]
    /\ UNCHANGED <<ipc, data, prepared_data, points, collections>>
    /\ UNCHANGED <<chatVars, fusionVars>>

\* llm_assistant.py:135-141, 109-132: main calls rag on the store after
\* ingestion
RagMain ==
    /\ ipc = "done"
    /\ found = None
    /\ \E q \in {"Which letters remain distinct?"} :
          \E vs \in {Raises} \cup
                    StoreAnswers(collections, QueryRequest(q, DefaultLimit)),
             llm \in {Raises} \cup LlmResponses :
             found' = [call |-> "rag", query |-> q, limit |-> DefaultLimit,
                       out |-> RagOutcome(vs, llm, now)]
    /\ UNCHANGED <<ipc, data, prepared_data, points, collections>>
    /\ UNCHANGED <<chatVars, fusionVars>>

InitStore ==
    /\ ChatInit
    /\ collections \in StoreStates
    /\ IngestInit
    /\ FusionIdle

NextStore ==
    \/ LoadData
    \/ PrepareData
    \/ CreateEmbeddings
    \/ IngestData
    \/ Search
    \/ RagMain

SpecStore == InitStore /\ [][NextStore]_vars

----------------------------------------------------------------------------
(* Claims about ingestion and retrieval                                    *)

Prepared == ipc \in {"create", "ingest", "done"}

\* found holds what rrf_search returned for the exact text of document i
SearchedExactly(i) ==
    /\ found # None
    /\ found.call = "rrf_search"
    /\ found.query = prepared_data[i].text

\* C6: a document prepared, embedded and upserted is retrievable by
\* rrf_search with its exact text as the query, and the payload returned
\* carries the prepared document's metadata unchanged.
C6_RoundTrip ==
    \A i \in DOMAIN prepared_data :
        (ipc = "done" /\ SearchedExactly(i)) =>
            /\ found.out # Raises
            /\ \E j \in DOMAIN found.out.points :
                  found.out.points[j].payload.metadata
                      = prepared_data[i].metadata

\* the characters of s other than ch, in order
Without(s, ch) ==
    LET keep == {i \in 1..Len(s) : Char(s, i) # ch}
        RECURSIVE Pick(_)
        Pick(i) == IF i > Len(s) THEN ""
                   ELSE (IF i \in keep THEN Char(s, i) ELSE "") \o Pick(i + 1)
    IN  Pick(1)

\* C8 as claimed: has_answer is true exactly when metadata.answer is not
\* empty, and metadata.answer is the record's first answer string, or the
\* empty string when the record has no answer.
C8_AnswerIsFirstAnswer ==
    Prepared =>
        \A i \in DOMAIN prepared_data :
            LET md == prepared_data[i].metadata
                al == data[i].answers.text
            IN  /\ md.has_answer <=> (md.answer # "")
                /\ md.answer = (IF Len(al) = 0 THEN "" ELSE al[1])

\* C8 as amended: has_answer is true exactly when metadata.answer is not
\* empty, and metadata.answer is the record's first answer string as
\* clean_text leaves it, less its double-quote characters, or the empty
\* string when the record has no answer.
C8_AnswerIsCleanedFirstAnswer ==
    Prepared =>
        \A i \in DOMAIN prepared_data :
            LET md == prepared_data[i].metadata
                al == data[i].answers.text
            IN  /\ md.has_answer <=> (md.answer # "")
                /\ ~ Contains(md.answer, "\"")
                /\ md.answer = (IF Len(al) = 0 THEN ""
                                ELSE Without(clean_text(al[1]), "\""))

\* a first answer made of double quotes only, stored as the empty answer
C8_Witness ==
    /\ Prepared
    /\ \E i \in DOMAIN prepared_data :
          /\ Len(data[i].answers.text) > 0
          /\ data[i].answers.text[1] = "\"\""
          /\ prepared_data[i].metadata.answer = ""
          /\ ~ prepared_data[i].metadata.has_answer

\* C10: what rrf_search returns has retrieved_docs_count equal to the
\* number of points returned and at most the limit passed; what rag
\* returns has retrieved_docs_count at most 2.
C10_RetrievedCountWithinLimit ==
    (found # None /\ found.out # Raises) =>
        /\ found.call = "rrf_search" =>
              /\ found.out.retrieved_docs_count = Len(found.out.points)
              /\ found.out.retrieved_docs_count <= found.limit
        /\ found.call = "rag" =>
              found.out.metrics.retrieved_docs_count <= 2

\* a search that returns as many points as its limit allows from a
\* collection holding more
C10_Witness ==
    /\ found # None
    /\ found.call = "rrf_search"
    /\ found.out # Raises
    /\ found.out.retrieved_docs_count = found.limit
    /\ Cardinality(collections[collection_name]) > found.limit

----------------------------------------------------------------------------
(* Reciprocal Rank Fusion.  rrf_search leaves the fusion to the vector     *)
(* store (llm_assistant.py:41); the algorithm below is the one the         *)
(* specification describes for it.                                         *)

RrfK == 60

Candidates == {"A", "B", "C", "D"}

\* the rank of c in list, from 1; 0 when the list does not hold it
RankIn(list, c) ==
    IF c \in Range(list) THEN CHOOSE i \in DOMAIN list : list[i] = c ELSE 0

\* a common denominator of the reciprocal ranks 1/(RrfK + r)
RECURSIVE RrfDenominator(_)
RrfDenominator(n) == IF n = 0 THEN 1 ELSE (RrfK + n) * RrfDenominator(n - 1)

\* 1/(RrfK + rank) over the common denominator of lists of length n
Reciprocal(list, c, n) ==
    IF RankIn(list, c) = 0 THEN 0
    ELSE RrfDenominator(n) \div (RrfK + RankIn(list, c))

\* the fused score of c: the sum over the lists holding it
FusedScore(d, s, c) ==
    LET n == Max(Len(d), Len(s))
    IN  Reciprocal(d, c, n) + Reciprocal(s, c, n)

\* ties broken by the sparse rank instead
TieKeySparse(d, s, c) ==
    IF RankIn(s, c) # 0 THEN RankIn(s, c) ELSE Len(s) + RankIn(d, c)

\* the key that breaks ties: the dense rank, the candidates the dense list
\* does not hold coming after it in sparse order
TieKey(d, s, c) ==
    IF RankIn(d, c) # 0 THEN RankIn(d, c) ELSE Len(d) + RankIn(s, c)

\* x is ranked above y
RankedAbove(d, s, x, y) ==
    \/ FusedScore(d, s, x) > FusedScore(d, s, y)
    \/ /\ FusedScore(d, s, x) = FusedScore(d, s, y)
       /\ TieKey(d, s, x) < TieKey(d, s, y)

\* the candidates of both lists, sorted
FusedOrder(d, s) ==
    LET cands == Range(d) \cup Range(s)
        place(c) == 1 + Cardinality({x \in cands : RankedAbove(d, s, x, c)})
    IN  [i \in 1..Cardinality(cands) |-> CHOOSE c \in cands : place(c) = i]

FusionInit ==
    /\ dense \in InjSeqs(Candidates, MaxListLen)
    /\ sparse \in InjSeqs(Candidates, MaxListLen)
    /\ fused = None

\* the two candidate lists are fused and the result cut to limit
Fuse ==
    /\ fused = None
    /\ \E limit \in 1..MaxLimit :
          LET order == FusedOrder(dense, sparse)
          IN  fused' = [limit  |-> limit,
                        order  |-> order,
                        points |-> SubSeq(order, 1, Min(limit, Len(order)))]
    /\ UNCHANGED <<dense, sparse>>
    /\ UNCHANGED <<chatVars, collections, ingestVars>>

InitFusion ==
    /\ ChatInit
    /\ collections = <<>>
    /\ IngestIdle
    /\ FusionInit

NextFusion == Fuse

SpecFusion == InitFusion /\ [][NextFusion]_vars

\* the lists of the scenario have been fused
Scenario ==
    /\ fused # None
    /\ dense = <<"A", "B", "C">>
    /\ sparse = <<"B", "A", "D">>

Place(c) == RankIn(fused.order, c)

\* C7 as claimed: fusing the dense list [A,B,C] and the sparse list [B,A,D]
\* with k = 60 ranks B above A, and A above both C and D.
C7_BAboveA ==
    Scenario =>
        /\ Place("B") < Place("A")
        /\ Place("A") < Place("C")
        /\ Place("A") < Place("D")

\* C7 as amended: A and B get the same fused score, 1/61 + 1/62, and the
\* tie-break by dense rank ranks A above B; B is above both C and D.
C7_AAboveB ==
    Scenario =>
        /\ FusedScore(dense, sparse, "A") = FusedScore(dense, sparse, "B")
        /\ Place("A") < Place("B")
        /\ Place("B") < Place("C")
        /\ Place("B") < Place("D")

\* the scenario fused, with A first and B second
C7_Witness ==
    /\ Scenario
    /\ fused.order[1] = "A"
    /\ fused.order[2] = "B"

====
